---- MODULE Spec2Model ----
(***************************************************************************)
(* Model of wb_search_texts_sync.py: one scheduled run resolves a period   *)
(* and a list of nm_id, requests the WB search-texts report batch by       *)
(* batch, turns the collected items into rows and upserts them into        *)
(* public.wb_search_texts in a single call.  Spec follows one run request  *)
(* by request; SpecSink chains several runs over one table, each taken     *)
(* from the moment the fetch has returned; SpecChunk is the batcher alone. *)
(***************************************************************************)
EXTENDS Integers, Sequences, FiniteSets, TLC

\* ---------------------------------------------------------------- bounds
MaxRuns == 2        \* runs of main() over the same table (SpecSink)
MaxSinkItems == 3   \* items a fetch returns to a run of SpecSink
MaxId == 2          \* nm_id are drawn from 1..MaxId
MaxEnvLen == 2      \* length of the NM_IDS list before deduplication
MaxRespItems == 1   \* items in one upstream response
BatchSize == 1      \* stands for the 100 of chunk(nm_ids, 100)
PageSize == 2       \* stands for page_size=1000 of execute_values
MaxChunk == 3       \* chunk sizes tried on the pure batcher
MaxChunkLen == 4    \* list lengths tried on the pure batcher

\* ------------------------------------------------------- python values
\* A JSON value of an item: null / missing key, a number, a numeric
\* string, a non-numeric string, or an object wrapping a number.
Null == <<"null", 0>>
Num(n) == <<"num", n>>
NumStr(n) == <<"numstr", n>>
BadStr == <<"str", 0>>
Wrap(n) == <<"dict", n>>

\* Optional results: None is the empty tuple, an int is <<n>>, a float is
\* the reduced fraction <<numerator, denominator>>.
None == <<>>
Some(n) == <<n>>

RECURSIVE Gcd(_, _)
Gcd(a, b) == IF b = 0 THEN a ELSE Gcd(b, a % b)

Rat(n, d) == LET g == Gcd(n, d) IN IF g = 0 THEN <<0, 1>> ELSE <<n \div g, d \div g>>

\* bool(v) of Python for the values above.
Truthy(v) ==
    CASE v[1] = "null" -> FALSE
      [] v[1] = "num" -> v[2] # 0
      [] OTHER -> TRUE

\* a or b
PyOr(a, b) == IF Truthy(a) THEN a ELSE b

safe_int(v) ==
    CASE v[1] = "null" -> None
      [] v[1] = "num" -> Some(v[2])
      [] v[1] = "numstr" -> Some(v[2])
      [] OTHER -> None

safe_float(v) ==
    CASE v[1] = "null" -> None
      [] v[1] = "num" -> Rat(v[2], 1)
      [] v[1] = "numstr" -> Rat(v[2], 1)
      [] OTHER -> None

\* ------------------------------------------------------------- strings
\* A text is a tuple of characters; " " is the only whitespace used.
IsSpace(c) == c = " "

RECURSIVE LStrip(_)
LStrip(s) == IF s # <<>> /\ IsSpace(Head(s)) THEN LStrip(Tail(s)) ELSE s

RECURSIVE RStrip(_)
RStrip(s) ==
    IF s # <<>> /\ IsSpace(s[Len(s)]) THEN RStrip(SubSeq(s, 1, Len(s) - 1)) ELSE s

Strip(s) == RStrip(LStrip(s))

\* The "text" field of an item: null, a string, or a non-string value.
TNull == <<"null", <<>>>>
TStr(s) == <<"str", s>>
TNum == <<"num", <<>>>>

\* ------------------------------------------------------------- batcher
Min(a, b) == IF a < b THEN a ELSE b

\* range(0, len(lst) - n + 1, n): the short last batch is lost.
chunk_full(lst, n) ==
    [k \in 1..(Len(lst) \div n) |-> SubSeq(lst, (k - 1) * n + 1, k * n)]

\* [lst[i:i + n] for i in range(0, len(lst), n)]
chunk(lst, n) ==
    [k \in 1..((Len(lst) + n - 1) \div n) |->
        SubSeq(lst, (k - 1) * n + 1, Min(k * n, Len(lst)))]

\* ------------------------------------------------------- identifiers
Ids == 1..MaxId

RECURSIVE SeqsUpTo(_, _)
SeqsUpTo(S, n) ==
    IF n = 0 THEN {<<>>}
    ELSE LET shorter == SeqsUpTo(S, n - 1)
         IN shorter \cup {Append(s, x) : s \in shorter, x \in S}

InSeq(x, s) == \E k \in 1..Len(s) : s[k] = x

\* unique preserving order
RECURSIVE Uniq(_, _)
Uniq(out, acc) ==
    IF out = <<>> THEN acc
    ELSE Uniq(Tail(out), IF InSeq(Head(out), acc) THEN acc ELSE Append(acc, Head(out)))

\* The integers of NM_IDS as they were written, repeats included.
parse_nm_ids_csv_repeats(out) == out

\* `out` is the list of the integers of the comma separated NM_IDS.
parse_nm_ids_csv(out) == Uniq(out, <<>>)

RECURSIVE Sorted(_)
Sorted(S) ==
    IF S = {} THEN <<>>
    ELSE LET m == CHOOSE x \in S : \A y \in S : x <= y
         IN <<m>> \o Sorted(S \ {m})

\* ---------------------------------------------------------- normalizer
\* (it.get("text") or ""): a missing, null or empty text gives "".
TextTruthy(t) ==
    CASE t[1] = "null" -> FALSE
      [] t[1] = "str" -> t[2] # <<>>
      [] OTHER -> TRUE

TextOrEmpty(it) == IF TextTruthy(it.text) THEN it.text ELSE TStr(<<>>)

\* it.get("nmId") or it.get("nmID")
ItemNmId(it) == PyOr(it.nmId, it.nmID)

\* .strip() exists on strings only.
StripRaises(it) == TextOrEmpty(it)[1] # "str"

SearchText(it) == Strip(TextOrEmpty(it)[2])

\* not (not nm_id): the search text is not looked at.
KeepsAnyText(it) == Truthy(ItemNmId(it))

\* not (not nm_id or not search_text)
Keeps(it) == Truthy(ItemNmId(it)) /\ SearchText(it) # <<>>

\* int(nm_id) fails on a non-numeric string and on an object.
IntRaises(v) == v[1] \in {"str", "dict"}

ItemRaises(it) == StripRaises(it) \/ (Keeps(it) /\ IntRaises(ItemNmId(it)))

\* The loop stops at the first item that raises: no row list is returned.
build_raises(items) == \E k \in 1..Len(items) : ItemRaises(items[k])

Positive(o) == o # None /\ o[1] > 0

\* numerator / denominator of Python 3 (true division): a fraction.
Derived(given, num, den) ==
    IF given = None /\ Positive(den) /\ num # None THEN Rat(num[1], den[1]) ELSE given

BuildRow(load_dttm, period_start, period_end, it) ==
    LET open_card == safe_int(it.openCard)
        add_to_cart == safe_int(it.addToCart)
        orders == safe_int(it.orders)
    IN [load_dttm |-> load_dttm,
        period_start |-> period_start,
        period_end |-> period_end,
        nm_id |-> ItemNmId(it)[2],
        search_text |-> SearchText(it),
        avg_position |-> safe_float(it.avgPosition),
        open_card |-> open_card,
        add_to_cart |-> add_to_cart,
        orders |-> orders,
        open_to_cart |-> Derived(safe_float(it.openToCart), add_to_cart, open_card),
        cart_to_order |-> Derived(safe_float(it.cartToOrder), orders, add_to_cart),
        open_to_order |-> Derived(safe_float(it.openToOrder), orders, open_card)]

\* The rows of a call that does not raise; load_dttm is the clock reading
\* taken at the top of the call.
build_db_rows(load_dttm, period_start, period_end, items) ==
    LET kept == SelectSeq(items, Keeps)
    IN [k \in 1..Len(kept) |-> BuildRow(load_dttm, period_start, period_end, kept[k])]

\* ---------------------------------------------------------------- sink
\* Dates are positive day numbers; 0 stands for the SQL NULL.
Coalesce(a, b) == IF a = 0 THEN b ELSE a

\* on conflict (period_start, coalesce(period_end, period_start), nm_id, search_text)
ConflictKey(r) ==
    <<r.period_start, Coalesce(r.period_end, r.period_start), r.nm_id, r.search_text>>

\* The update forgets the order count and the load timestamp.
DoUpdateStale(s, r) ==
    [s EXCEPT !.avg_position = r.avg_position,
              !.open_card = r.open_card,
              !.add_to_cart = r.add_to_cart,
              !.open_to_cart = r.open_to_cart,
              !.cart_to_order = r.cart_to_order,
              !.open_to_order = r.open_to_order]

\* do update set ... = excluded. ...
DoUpdate(s, r) ==
    [s EXCEPT !.load_dttm = r.load_dttm,
              !.avg_position = r.avg_position,
              !.open_card = r.open_card,
              !.add_to_cart = r.add_to_cart,
              !.orders = r.orders,
              !.open_to_cart = r.open_to_cart,
              !.cart_to_order = r.cart_to_order,
              !.open_to_order = r.open_to_order]

\* One proposed row of an insert ... on conflict do update.
UpsertOne(store, r) ==
    LET hit == {s \in store : ConflictKey(s) = ConflictKey(r)}
    IN IF hit = {} THEN store \cup {r}
       ELSE (store \ hit) \cup {DoUpdate(s, r) : s \in hit}

RECURSIVE UpsertAll(_, _)
UpsertAll(store, rs) ==
    IF rs = <<>> THEN store ELSE UpsertAll(UpsertOne(store, Head(rs)), Tail(rs))

\* One statement may not touch the same row twice ("ON CONFLICT DO UPDATE
\* command cannot affect row a second time").
SecondTime(page) ==
    \E a, b \in 1..Len(page) : a < b /\ ConflictKey(page[a]) = ConflictKey(page[b])

\* execute_values sends one statement per page of page_size rows.  `down`
\* is the statement at which the database itself fails (0: never); `sent`
\* counts the statements that went through.
RECURSIVE ExecutePages(_, _, _, _)
ExecutePages(store, pages, down, sent) ==
    IF pages = <<>>
    THEN [ok |-> TRUE, store |-> store, sent |-> sent, error |-> "none"]
    ELSE IF down = sent + 1
    THEN [ok |-> FALSE, store |-> store, sent |-> sent, error |-> "OperationalError"]
    ELSE IF SecondTime(Head(pages))
    THEN [ok |-> FALSE, store |-> store, sent |-> sent, error |-> "CardinalityViolation"]
    ELSE ExecutePages(UpsertAll(store, Head(pages)), Tail(pages), down, sent + 1)

\* Every statement is committed on its own.
upsert_rows_autocommit(store, rs, down) ==
    IF rs = <<>> THEN [ok |-> TRUE, store |-> store, sent |-> 0, error |-> "none"]
    ELSE ExecutePages(store, chunk(rs, PageSize), down, 0)

\* The table after the call: the transaction is committed once every page
\* went through, and is never committed when a statement raised.
upsert_rows(store, rs, down) ==
    IF rs = <<>> THEN [ok |-> TRUE, store |-> store, sent |-> 0, error |-> "none"]
    ELSE LET res == ExecutePages(store, chunk(rs, PageSize), down, 0)
         IN IF res.ok THEN res ELSE [res EXCEPT !.store = store]

\* ------------------------------------------------------------ upstream
Item(nmId, nmID, text, avgPosition, openCard, addToCart, orders, openToCart, cartToOrder, openToOrder) ==
    [dict |-> TRUE, nmId |-> nmId, nmID |-> nmID, text |-> text,
     avgPosition |-> avgPosition, openCard |-> openCard, addToCart |-> addToCart,
     orders |-> orders, openToCart |-> openToCart, cartToOrder |-> cartToOrder,
     openToOrder |-> openToOrder]

\* Counts only, no ratio sent.
ItemCounts == Item(Num(1), Null, TStr(<<"a">>), Num(3), Num(50), Num(10), Num(2), Null, Null, Null)
\* The other spelling of the identifier, padded text, other metrics.
ItemAlt == Item(Num(0), Num(1), TStr(<<" ", "a", " ">>), Null, Num(0), Null, NumStr(5), Num(30), Null, Null)
\* Metrics sent as objects.
ItemWrapped == Item(Num(2), Null, TStr(<<"b">>), Wrap(4), Wrap(7), Wrap(1), Wrap(1), Null, Null, Null)
ItemBlank == Item(Num(1), Null, TStr(<<" ">>), Num(3), Num(50), Num(10), Num(2), Null, Null, Null)
ItemNoId == Item(Null, Null, TStr(<<"a">>), Num(3), Num(50), Num(10), Num(2), Null, Null, Null)
ItemBadId == Item(BadStr, Null, TStr(<<"a">>), Null, Null, Null, Null, Null, Null, Null)
\* An entry of "items" that is no object.
NotADict == [ItemBlank EXCEPT !.dict = FALSE]

ItemPool == {ItemCounts, ItemAlt, ItemWrapped, ItemBlank, ItemNoId, ItemBadId, NotADict}

Payloads == SeqsUpTo(ItemPool, MaxRespItems)

IsDict(it) == it.dict

\* What the upstream answers to the successive attempts on one batch.
Scripts == {<<200>>, <<500>>, <<429, 429, 429, 200>>, <<429, 429, 429, 429, 429, 429, 429>>}

Periods == {<<1, 1>>, <<1, 2>>}

Variants == {"orders", "addToCart"}

\* Every status but 429 is taken for a success.
wb_post_lenient(status) == IF status = 429 THEN "WB 429" ELSE "ok"

\* A throttling answer is taken for a success.
wb_post_throttle_ok(status) ==
    IF status \in {200, 429} THEN "ok" ELSE "WB request failed"

\* The status checks of wb_post.
wb_post(status) ==
    IF status = 429 THEN "WB 429"
    ELSE IF status # 200 THEN "WB request failed"
    ELSE "ok"

\* pg_connect: a conninfo, or else host and password, are needed before
\* psycopg2.connect is called.
pg_connect(conninfo, host_password) ==
    IF conninfo \/ host_password THEN "open" ELSE "connection settings"

\* The connection is opened before the key is looked at.
startup_connect_first(api_key, conninfo, host_password) ==
    LET c == pg_connect(conninfo, host_password)
    IN IF c # "open" THEN [error |-> c, conn |-> "none"]
       ELSE IF ~api_key THEN [error |-> "WB_API_KEY", conn |-> "closed"]
       ELSE [error |-> "none", conn |-> "open"]

\* main() up to conn = pg_connect(): the key first, then the connection.
startup(api_key, conninfo, host_password) ==
    IF ~api_key THEN [error |-> "WB_API_KEY", conn |-> "none"]
    ELSE LET c == pg_connect(conninfo, host_password)
         IN IF c = "open" THEN [error |-> "none", conn |-> "open"]
            ELSE [error |-> c, conn |-> "none"]

\* No pause at all.
pause_never(b, n) == <<>>

\* if i < len(batches): time.sleep(pause_seconds)
pause_after(b, n) == IF b < n THEN << <<"sleep", b, 0>> >> ELSE <<>>

\* The error of conn.close() leaves main() in place of the outcome.
finally_close_leaky(outcome, close_raises) ==
    IF close_raises THEN "conn.close" ELSE outcome

\* finally: try: conn.close() except Exception: pass
finally_close(outcome, close_raises) == outcome

\* --------------------------------------------------------------- state
VARIABLES
    pc,            \* where main() is: idle, fetch, built, done, failed
    now,           \* clock: one tick per run
    period,        \* <<period_start, period_end>>
    top_order_by,  \* TOP_ORDER_BY of the run
    nm_ids,        \* identifiers of the run
    batches,       \* chunk(nm_ids, 100)
    i,             \* batch being requested
    upstream,      \* answers of the upstream to the attempts on batch i
    log,           \* requests and pauses of the run, in order
    all_items,     \* items collected so far
    rows,          \* result of build_db_rows
    storage,       \* public.wb_search_texts
    store0,        \* the table as the run found it
    wrote,         \* <<variant, key>> of every row committed so far
    error,         \* the exception that ended the run
    conn,          \* the connection: none, open, closed, close raised
    ids_from,      \* where nm_ids came from: none, env, db
    sent,          \* statements of the upsert call that went through
    settings       \* <<key set, conninfo set, host and password set>>

vars == <<pc, now, period, top_order_by, nm_ids, batches, i, upstream, log,
          all_items, rows, storage, store0, wrote, error, conn, ids_from, sent,
          settings>>

\* The end of main() with the connection open: the finally clause.
Leave(outcome) ==
    \E close_raises \in BOOLEAN :
       /\ conn' = IF close_raises THEN "close raised" ELSE "closed"
       /\ error' = finally_close(outcome, close_raises)

\* The table as a run may find it: empty, or written by an earlier run.
InitTables ==
    {{}, upsert_rows({}, build_db_rows(0, 1, 1, <<ItemAlt, ItemWrapped>>), 0).store}

Init ==
    /\ pc = "idle"
    /\ now = 0
    /\ period = <<1, 1>>
    /\ top_order_by = "orders"
    /\ nm_ids = <<>>
    /\ batches = <<>>
    /\ i = 1
    /\ upstream = <<>>
    /\ log = <<>>
    /\ all_items = <<>>
    /\ rows = <<>>
    /\ storage \in InitTables
    /\ store0 = storage
    /\ wrote = {}
    /\ error = "none"
    /\ conn = "none"
    /\ ids_from = "none"
    /\ sent = 0
    /\ settings = <<>>

\* The settings a run may start with: WB_API_KEY, a conninfo (SUPABASE_DB_URL
\* and the like), host with password.
Settings ==
    {<<TRUE, TRUE, FALSE>>, <<TRUE, FALSE, TRUE>>, <<TRUE, FALSE, FALSE>>,
     <<FALSE, TRUE, FALSE>>, <<FALSE, FALSE, FALSE>>}

\* main() stops before the try block: no key, or no connection settings.
StartRunNoConfig ==
    /\ pc = "idle"
    /\ \E cfg \in Settings :
          LET st == startup(cfg[1], cfg[2], cfg[3])
          IN /\ st.error # "none"
             /\ settings' = cfg
             /\ error' = st.error
             /\ conn' = st.conn
    /\ pc' = "failed"
    /\ now' = now + 1
    /\ store0' = storage
    /\ UNCHANGED <<period, top_order_by, nm_ids, batches, i, upstream, log,
                   all_items, rows, storage, wrote, ids_from, sent>>

\* main() up to the identifiers.
Begin ==
    /\ pc = "idle"
    /\ \E cfg \in Settings :
          /\ startup(cfg[1], cfg[2], cfg[3]).error = "none"
          /\ settings' = cfg
    /\ now' = now + 1
    /\ sent' = 0
    /\ period' \in Periods
    /\ top_order_by' \in Variants
    /\ i' = 1
    /\ upstream' = <<>>
    /\ all_items' = <<>>
    /\ rows' = <<>>
    /\ store0' = storage
    /\ UNCHANGED <<storage, wrote>>

\* NM_IDS is set: parse_nm_ids_csv.
StartRunEnv ==
    /\ Begin
    /\ \E out \in SeqsUpTo(Ids, MaxEnvLen) :
          /\ nm_ids' = parse_nm_ids_csv(out)
          /\ batches' = chunk(nm_ids', BatchSize)
    /\ log' = <<>>
    /\ ids_from' = "env"
    /\ conn' = "open"
    /\ pc' = "fetch"
    /\ error' = "none"

\* NM_IDS is empty: fetch_nm_ids_from_db finds identifiers.
StartRunDb ==
    /\ Begin
    /\ \E S \in SUBSET Ids :
          /\ S # {}
          /\ nm_ids' = Sorted(S)
          /\ batches' = chunk(nm_ids', BatchSize)
    /\ log' = << <<"catalog", 0, 0>> >>
    /\ ids_from' = "db"
    /\ conn' = "open"
    /\ pc' = "fetch"
    /\ error' = "none"

\* fetch_nm_ids_from_db finds none in any candidate table.
StartRunNoIds ==
    /\ Begin
    /\ nm_ids' = <<>>
    /\ batches' = <<>>
    /\ log' = << <<"catalog", 0, 0>> >>
    /\ ids_from' = "db"
    /\ pc' = "failed"
    /\ Leave("no nm_id")

\* One pass of the loop of fetch_search_texts_for_nmids that wb_post
\* returns from.
FetchBatch ==
    /\ pc = "fetch"
    /\ i <= Len(batches)
    /\ \E sc \in Scripts, payload \in Payloads :
          /\ wb_post(sc[1]) = "ok"
          /\ upstream' = sc
          /\ all_items' = all_items \o SelectSeq(payload, IsDict)
          /\ log' = Append(log, <<"post", i, sc[1]>>) \o pause_after(i, Len(batches))
    /\ i' = i + 1
    /\ UNCHANGED <<pc, now, period, top_order_by, nm_ids, batches, rows, storage,
                   store0, wrote, error, conn, ids_from, sent, settings>>

\* wb_post raises: the exception leaves main().
FetchAbort ==
    /\ pc = "fetch"
    /\ i <= Len(batches)
    /\ \E sc \in Scripts :
          /\ wb_post(sc[1]) # "ok"
          /\ upstream' = sc
          /\ log' = Append(log, <<"post", i, sc[1]>>)
          /\ Leave(wb_post(sc[1]))
    /\ pc' = "failed"
    /\ UNCHANGED <<now, period, top_order_by, nm_ids, batches, i, all_items, rows,
                   storage, store0, wrote, ids_from, sent, settings>>

\* All batches are in: build_db_rows.
BuildRows ==
    /\ pc = "fetch"
    /\ i > Len(batches)
    /\ IF build_raises(all_items)
       THEN /\ pc' = "failed"
            /\ Leave("build_db_rows")
            /\ rows' = rows
       ELSE /\ pc' = "built"
            /\ error' = error
            /\ conn' = conn
            /\ rows' = build_db_rows(now, period[1], period[2], all_items)
    /\ UNCHANGED <<now, period, top_order_by, nm_ids, batches, i, upstream, log,
                   all_items, storage, store0, wrote, ids_from, sent, settings>>

\* upsert_rows, then the end of main().
Upsert ==
    /\ pc = "built"
    /\ \E down \in 0..Len(chunk(rows, PageSize)) :
          LET res == upsert_rows(storage, rows, down)
          IN /\ storage' = res.store
             /\ sent' = res.sent
             /\ Leave(res.error)
             /\ IF res.ok
                THEN /\ pc' = "done"
                     /\ wrote' = wrote \cup
                           {<<top_order_by, ConflictKey(rows[k])>> : k \in 1..Len(rows)}
                ELSE /\ pc' = "failed"
                     /\ wrote' = wrote
    /\ UNCHANGED <<now, period, top_order_by, nm_ids, batches, i, upstream, log,
                   all_items, rows, store0, ids_from, settings>>

Next ==
    \/ StartRunNoConfig
    \/ StartRunEnv
    \/ StartRunDb
    \/ StartRunNoIds
    \/ FetchBatch
    \/ FetchAbort
    \/ BuildRows
    \/ Upsert

Spec == Init /\ [][Next]_vars

\* ---------------------------------------------------------- several runs
SinkPool == {ItemCounts, ItemAlt, ItemWrapped}

InitSink ==
    /\ pc = "idle"
    /\ now = 0
    /\ period = <<1, 1>>
    /\ top_order_by = "orders"
    /\ nm_ids = <<>>
    /\ batches = <<>>
    /\ i = 1
    /\ upstream = <<>>
    /\ log = <<>>
    /\ all_items = <<>>
    /\ rows = <<>>
    /\ storage = {}
    /\ store0 = {}
    /\ wrote = {}
    /\ error = "none"
    /\ conn = "none"
    /\ ids_from = "none"
    /\ sent = 0
    /\ settings = <<>>

\* A new process, up to the return of fetch_search_texts_for_nmids: one
\* identifier, one batch, one response with the items.
Fetched ==
    /\ pc = "idle"
    /\ now < MaxRuns
    /\ now' = now + 1
    /\ period' \in Periods
    /\ top_order_by' \in Variants
    /\ nm_ids' = <<1>>
    /\ batches' = chunk(nm_ids', BatchSize)
    /\ i' = Len(batches') + 1
    /\ upstream' = <<200>>
    /\ log' = << <<"post", 1, 200>> >>
    /\ all_items' \in SeqsUpTo(SinkPool, MaxSinkItems)
    /\ rows' = <<>>
    /\ store0' = storage
    /\ pc' = "fetch"
    /\ error' = "none"
    /\ conn' = "open"
    /\ ids_from' = "env"
    /\ sent' = 0
    /\ settings' = <<TRUE, TRUE, FALSE>>
    /\ UNCHANGED <<storage, wrote>>

\* The process ends, with or without an exception: only the table stays.
Exit ==
    /\ pc \in {"done", "failed"}
    /\ pc' = "idle"
    /\ period' = <<1, 1>>
    /\ top_order_by' = "orders"
    /\ nm_ids' = <<>>
    /\ batches' = <<>>
    /\ i' = 1
    /\ upstream' = <<>>
    /\ log' = <<>>
    /\ all_items' = <<>>
    /\ rows' = <<>>
    /\ store0' = storage
    /\ error' = "none"
    /\ conn' = "none"
    /\ ids_from' = "none"
    /\ sent' = 0
    /\ settings' = <<>>
    /\ UNCHANGED <<now, storage, wrote>>

NextSink ==
    \/ Fetched
    \/ BuildRows
    \/ Upsert
    \/ Exit

SpecSink == InitSink /\ [][NextSink]_vars

\* ------------------------------------------------------------- helpers
Posts(b) == {k \in 1..Len(log) : log[k][1] = "post" /\ log[k][2] = b}

SameMetrics(s, r) ==
    /\ s.avg_position = r.avg_position
    /\ s.open_card = r.open_card
    /\ s.add_to_cart = r.add_to_cart
    /\ s.orders = r.orders
    /\ s.open_to_cart = r.open_to_cart
    /\ s.cart_to_order = r.cart_to_order
    /\ s.open_to_order = r.open_to_order

Stored(key) == {s \in storage : ConflictKey(s) = key}

\* The last row of rs that carries the key of rs[k].
LastOfKey(rs, k) ==
    rs[CHOOSE m \in k..Len(rs) :
          /\ ConflictKey(rs[m]) = ConflictKey(rs[k])
          /\ \A n \in (m + 1)..Len(rs) : ConflictKey(rs[n]) # ConflictKey(rs[k])]

FetchFailed == pc = "failed" /\ error \in {"WB 429", "WB request failed"}

\* ---------------------------------------------------------------- C1
ThrottledThenOk(sc) ==
    /\ Len(sc) >= 4
    /\ \A k \in 1..3 : sc[k] = 429
    /\ sc[4] = 200

\* C1: when the upstream answers 429 to the first three attempts on a
\* batch and 200 to the fourth, the run does not end in an error.
C1_ThrottleRecovers ==
    (log # <<>> /\ ThrottledThenOk(upstream)) => (pc # "failed" /\ error = "none")

\* ---------------------------------------------------------------- C2
FatalFirst == upstream # <<>> /\ upstream[1] \notin {200, 429}

\* C2: a status other than 200 and 429 on the first attempt for a batch
\* means one request for that batch, an upstream error, no request for a
\* later batch, and a table the run has not touched.
C2_FatalAborts ==
    FatalFirst =>
        /\ pc = "failed"
        /\ error = "WB request failed"
        /\ Cardinality(Posts(i)) = 1
        /\ log[Len(log)] = <<"post", i, upstream[1]>>
        /\ \A b \in (i + 1)..Len(batches) : Posts(b) = {}
        /\ storage = store0
        /\ \A s \in storage : s.load_dttm # now

C2_Witness ==
    /\ FatalFirst
    /\ pc = "failed"
    /\ i < Len(batches)

\* ---------------------------------------------------------------- C3
\* C3: when the fetch of a batch after the first fails, the rows of the
\* batches fetched before it are in the table.
C3_ProgressSurvives ==
    (FetchFailed /\ i > 1 /\ ~build_raises(all_items)) =>
        LET done == build_db_rows(now, period[1], period[2], all_items)
        IN \A k \in 1..Len(done) :
              \E s \in Stored(ConflictKey(done[k])) : SameMetrics(s, done[k])

\* ---------------------------------------------------------------- C4
OneRowPerKey == \A s, t \in storage : ConflictKey(s) = ConflictKey(t) => s = t

\* C4: the table holds one row per key, and after an upsert call the row
\* of each written key carries the metrics and the load timestamp of the
\* last row written for it.
C4_UpsertRoundTrip ==
    /\ OneRowPerKey
    /\ pc = "done" =>
          \A k \in 1..Len(rows) :
             LET last == LastOfKey(rows, k)
             IN \E s \in Stored(ConflictKey(rows[k])) :
                   /\ SameMetrics(s, last)
                   /\ s.load_dttm = last.load_dttm

C4_Witness ==
    /\ pc = "done"
    /\ \E k \in 1..Len(rows) :
          \E old \in store0 :
             /\ ConflictKey(old) = ConflictKey(rows[k])
             /\ ~SameMetrics(old, rows[k])
             /\ old.load_dttm < rows[k].load_dttm

\* ---------------------------------------------------------------- C5
\* C5: rows written under two ranking variants with the same period,
\* identifier and search text are two rows of the table.
C5_VariantInKey ==
    \A w, x \in wrote :
       (w[2] = x[2] /\ w[1] # x[1]) => Cardinality(Stored(w[2])) >= 2

\* ---------------------------------------------------------------- C6
Collides(rs) ==
    \E a, b \in 1..Len(rs) : a < b /\ ConflictKey(rs[a]) = ConflictKey(rs[b])

\* C6: when the rows of a run hold the same key twice, the write goes
\* through and the table holds the values of the last of them.
C6_CollisionTolerated ==
    (pc \in {"done", "failed"} /\ Collides(rows) /\ error # "OperationalError") =>
        /\ pc = "done"
        /\ \A k \in 1..Len(rows) :
              \E s \in Stored(ConflictKey(rows[k])) : SameMetrics(s, LastOfKey(rows, k))

\* ---------------------------------------------------------------- C7
\* The batcher on its own: any list, any positive size.
InitChunk ==
    /\ pc = "idle"
    /\ now = 0
    /\ period = <<1, 1>>
    /\ top_order_by = "orders"
    /\ nm_ids \in SeqsUpTo({1, 2, 3}, MaxChunkLen)
    /\ batches = <<>>
    /\ i = 1
    /\ upstream = <<>>
    /\ log = <<>>
    /\ all_items = <<>>
    /\ rows = <<>>
    /\ storage = {}
    /\ store0 = {}
    /\ wrote = {}
    /\ error = "none"
    /\ conn = "none"
    /\ ids_from = "none"
    /\ sent = 0
    /\ settings = <<>>

\* batches = chunk(nm_ids, n)
SplitBatches ==
    /\ pc = "idle"
    /\ \E n \in 1..MaxChunk : batches' = chunk(nm_ids, n)
    /\ pc' = "split"
    /\ UNCHANGED <<now, period, top_order_by, nm_ids, i, upstream, log, all_items,
                   rows, storage, store0, wrote, error, conn, ids_from, sent, settings>>

SpecChunk == InitChunk /\ [][SplitBatches]_vars

RECURSIVE Flatten(_)
Flatten(bs) == IF bs = <<>> THEN <<>> ELSE Head(bs) \o Flatten(Tail(bs))

\* The least m with m * n >= len.
CeilDiv(len, n) == CHOOSE m \in 0..len : m * n >= len /\ (m = 0 \/ (m - 1) * n < len)

ChunkLaw(lst, bs, n) ==
    /\ Len(bs) = CeilDiv(Len(lst), n)
    /\ \A k \in 1..Len(bs) : Len(bs[k]) >= 1 /\ Len(bs[k]) <= n
    /\ Flatten(bs) = lst

\* C7: for a list of length N and a size B > 0 the batcher yields
\* ceil(N/B) non-empty batches of at most B elements whose concatenation
\* is the list.
C7_ChunkLaw ==
    /\ \A n \in 1..MaxChunk : ChunkLaw(nm_ids, chunk(nm_ids, n), n)
    /\ pc = "split" => \E n \in 1..MaxChunk : ChunkLaw(nm_ids, batches, n)

C7_Witness ==
    /\ pc = "split"
    /\ Len(batches) >= 2
    /\ Len(batches[Len(batches)]) < Len(batches[1])

\* ---------------------------------------------------------------- C8
Blank(s) == \A k \in 1..Len(s) : s[k] = " "

\* Empty search text after trimming, or no identifier under either spelling.
Missing(it) ==
    \/ it.text = TNull
    \/ (it.text[1] = "str" /\ Blank(it.text[2]))
    \/ (it.nmId = Null /\ it.nmID = Null)

NotMissing(it) == ~Missing(it)

\* C8: an item with an empty search text after trimming or without an
\* identifier gives no row, and no row of the table has an empty search
\* text or lacks an identifier.
C8_MissingDropped ==
    /\ \A s \in storage : s.search_text # <<>> /\ s.nm_id >= 1
    /\ pc \in {"built", "done"} =>
          /\ rows = build_db_rows(now, period[1], period[2], SelectSeq(all_items, NotMissing))
          /\ \A k \in 1..Len(rows) : rows[k].search_text # <<>> /\ rows[k].nm_id >= 1

C8_Witness ==
    /\ pc = "done"
    /\ \E k \in 1..Len(all_items) : Missing(all_items[k])
    /\ rows # <<>>
    /\ Len(rows) < Len(all_items)
    /\ \E s \in storage : s.load_dttm = now

\* ---------------------------------------------------------------- C9
\* 100 * numerator / denominator, absent without a positive denominator.
Percent(num, den) ==
    IF den # None /\ den[1] > 0 /\ num # None THEN Rat(100 * num[1], den[1]) ELSE None

NoRatioSent(it) == it.openToCart = Null /\ it.cartToOrder = Null /\ it.openToOrder = Null

\* C9: the ratios of an item that sends none are percentages of its
\* counts: openCard=50, addToCart=10, orders=2 give 20, 20 and 4.
C9_PercentRatios ==
    pc = "built" =>
        \A k \in 1..Len(all_items) :
           LET it == all_items[k]
               r == BuildRow(now, period[1], period[2], it)
           IN (NotMissing(it) /\ NoRatioSent(it)) =>
                 /\ r.open_to_cart = Percent(r.add_to_cart, r.open_card)
                 /\ r.cart_to_order = Percent(r.orders, r.add_to_cart)
                 /\ r.open_to_order = Percent(r.orders, r.open_card)

\* ---------------------------------------------------------------- C10
\* C10: normalizing the same period and items again, at whatever moment,
\* gives the same rows field for field.
C10_SameRows ==
    pc = "built" =>
        \A t \in 1..MaxRuns : build_db_rows(t, period[1], period[2], all_items) = rows

\* ---------------------------------------------------------------- C11
\* The upstream answers 429 to every attempt on the current batch.
AlwaysThrottled == upstream # <<>> /\ \A k \in 1..Len(upstream) : upstream[k] = 429

\* C11: a batch the upstream always throttles is asked for six times, no
\* more and no fewer, and the run then ends on the rate-limit error.
C11_BoundedRetry ==
    /\ \A b \in 1..Len(batches) : Cardinality(Posts(b)) <= 6
    /\ (pc = "failed" /\ AlwaysThrottled) =>
          /\ Cardinality(Posts(i)) = 6
          /\ error = "WB 429"

\* ---------------------------------------------------------------- C12
\* C12: whatever dict items the upstream sent, the normalizer returns a
\* row list: a run that fetched every batch reaches the write.
C12_MalformedTolerated ==
    (pc # "fetch" /\ ~FetchFailed /\ upstream # <<>>) =>
        /\ error # "build_db_rows"
        /\ pc \in {"built", "done", "failed"}

\* ---------------------------------------------------------------- C13
\* C13: a run whose identifier list came out empty has failed, with no
\* request sent and the table as it was before the run.
C13_EmptyIdsFatal ==
    (ids_from # "none" /\ nm_ids = <<>> /\ pc # "fetch") =>
        /\ pc = "failed"
        /\ error = "no nm_id"
        /\ \A k \in 1..Len(log) : log[k][1] # "post"
        /\ storage = store0

\* ---------------------------------------------------------------- C14
\* The key or the connection settings of the run are missing.
ConfigMissing ==
    settings # <<>> /\ (~settings[1] \/ (~settings[2] /\ ~settings[3]))

\* C14: a run started without the key, or without connection settings,
\* has failed with no connection opened, no catalog query, no request and
\* the table untouched.
C14_ConfigFatalFirst ==
    ConfigMissing =>
        /\ pc = "failed"
        /\ error \in {"WB_API_KEY", "connection settings"}
        /\ conn = "none"
        /\ log = <<>>
        /\ ids_from = "none"
        /\ storage = store0

\* A run failed for its connection settings alone.
C14_Witness ==
    /\ pc = "failed"
    /\ settings = <<TRUE, FALSE, FALSE>>
    /\ error = "connection settings"
    /\ conn = "none"

\* ---------------------------------------------------------------- C15
\* The upsert call of the run raised.
WriteFailed == pc = "failed" /\ error \in {"OperationalError", "CardinalityViolation"}

\* C15: after an upsert call that returned, every row of the call is in
\* the table as of this run; after one that raised, whatever number of
\* pages had gone through, the table is what it was before the call.
C15_UpsertAtomic ==
    /\ pc = "done" =>
          \A k \in 1..Len(rows) :
             \E s \in Stored(ConflictKey(rows[k])) : s.load_dttm = rows[k].load_dttm
    /\ WriteFailed => storage = store0

\* The database failed after a first page of new rows had gone through.
C15_Witness ==
    /\ WriteFailed
    /\ sent >= 1
    /\ Len(rows) > PageSize
    /\ UpsertAll(store0, chunk(rows, PageSize)[1]) # store0
    /\ storage = store0

\* ---------------------------------------------------------------- C16
\* C16: no two requests of a run are issued back to back: a pacing
\* sleep lies between a request and the next one.
C16_Paced ==
    \A k \in 1..(Len(log) - 1) :
       log[k][1] = "post" => log[k + 1][1] = "sleep" /\ log[k + 1][2] = log[k][2]

\* Two batches were requested, with the pause between them.
C16_Witness ==
    /\ Cardinality({k \in 1..Len(log) : log[k][1] = "post"}) >= 2
    /\ \E k \in 1..Len(log) : log[k][1] = "sleep"

\* ---------------------------------------------------------------- C17
NoRepeat(s) == \A a, b \in 1..Len(s) : s[a] = s[b] => a = b

Ascending(s) == \A a, b \in 1..Len(s) : a < b => s[a] < s[b]

Resolved(v) ==
    CASE v[1] = "dict" -> Some(v[2])
      [] v[1] \in {"num", "numstr"} -> Some(v[2])
      [] OTHER -> None

\* C18: the counts of a row are the numbers its item carries, whether
\* sent bare or inside a wrapper object.
C18_WrapperResolved ==
    pc = "built" =>
        \A k \in 1..Len(all_items) :
           LET it == all_items[k]
               r == BuildRow(now, period[1], period[2], it)
           IN Keeps(it) =>
                 /\ r.open_card = Resolved(it.openCard)
                 /\ r.add_to_cart = Resolved(it.addToCart)
                 /\ r.orders = Resolved(it.orders)

\* ---------------------------------------------------------------- C19
\* upsert_rows was called in this run.
UpsertInvoked == pc = "done" \/ WriteFailed

\* C19: the write of a run is called only when each batch was requested
\* once and answered 200, the table changes by that one call alone, and a
\* run whose request failed leaves the table as it was before the run.
C19_AllOrNothingRun ==
    /\ UpsertInvoked =>
          \A b \in 1..Len(batches) :
             /\ Cardinality(Posts(b)) = 1
             /\ \A k \in Posts(b) : log[k][3] = 200
    /\ storage # store0 =>
          /\ pc = "done"
          /\ storage = upsert_rows(store0, rows, 0).store
    /\ FetchFailed => storage = store0 /\ sent = 0

\* A later batch failed after an earlier one had brought an item that
\* makes a row.
C19_Witness ==
    /\ FetchFailed
    /\ i >= 2
    /\ \E k \in 1..Len(all_items) : Keeps(all_items[k]) /\ ~ItemRaises(all_items[k])
    /\ storage = store0

\* ---------------------------------------------------------------- C20
\* main() was left after the connection had been opened.
LeftWithConnection == pc \in {"done", "failed"} /\ ~ConfigMissing

\* C20: while the run works the connection is open; however the run
\* ends, close() has been called on it, and the outcome of the run is
\* its own, never the error of close().
C20_ConnectionReleased ==
    /\ pc \in {"fetch", "built"} => conn = "open"
    /\ LeftWithConnection =>
          /\ conn \in {"closed", "close raised"}
          /\ error # "conn.close"
          /\ pc = "done" <=> error = "none"
          /\ pc = "failed" =>
                error \in {"no nm_id", "WB 429", "WB request failed", "build_db_rows",
                           "OperationalError", "CardinalityViolation"}

\* The normalizer raised and close() raised after it.
C20_Witness ==
    /\ pc = "failed"
    /\ error = "build_db_rows"
    /\ conn = "close raised"

====
